---- MODULE Spec2Model ----
(***************************************************************************)
(* The warmup scheduler of proxy-warmup: class EmailWarmup with its        *)
(* RecipientManager, the two timers it arms (a repeating interval per      *)
(* daily pass, a one-shot timeout to the next local midnight) and the      *)
(* sends it starts.  Time is wall-clock milliseconds counted from local    *)
(* midnight of January 25th; a timer fires at the instant it is due.       *)
(***************************************************************************)
EXTENDS Integers, Sequences, FiniteSets, Bags, TLC

\* ------------------------------------------------------------------ bounds
MaxDay == 9               \* the clock stops advancing at the end of this day
MaxTicks == 4             \* interval callbacks run in one behaviour
MaxCalls == 4             \* loadRecipients(), start() and stop() calls in one behaviour

\* ------------------------------------------------------- program constants
DayMs == 86400000         \* 1000 * 60 * 60 * 24
MinDelayMs == 1000        \* Math.max(delayBetweenEmails, 1000)
DaysPerWeek == 7          \* Math.floor(diffDays / 7)

NULL == 0                 \* a null timer handle
NullManager == [null |-> TRUE]   \* recipientManager: RecipientManager | null = null
Undefined == "undefined"  \* the value of next.value on an exhausted iterator

MaxTime == MaxDay * DayMs

VARIABLES
    now,                  \* new Date().getTime()
    envRecommended,       \* env.RECOMMENDED
    mailerPrompt,         \* the injected mailer settles before any timer fires
    exited,               \* process.exit(0) was called
    warmupSchedule,       \* this.warmupSchedule: week -> quota
    startDate,            \* this.startDate (ms, local midnight)
    recipientManager,     \* this.recipientManager: NullManager or [recipients, iterator]
    loadResult,           \* outcome of the last loadRecipients(): none, ok, error
    isRunning,            \* this.isRunning
    dailyEmailCountSent,  \* this.dailyEmailCountSent
    emailIntervalId,      \* this.emailIntervalId: a timer id or NULL
    nextDayTimeoutId,     \* this.nextDayTimeoutId: a timer id or NULL
    timers,               \* the armed timers of the platform
    inflight,             \* bag of the sendEmailFunction calls that have not settled
    ticks,                \* interval callbacks run so far
    calls,                \* loadRecipients(), start() and stop() calls so far
    lastOp,               \* the operation that made the last step
    pass,                 \* bookkeeping of the current daily scheduling pass
    mailed,               \* sendEmailFunction calls since the recipients were loaded
    probe                 \* the call under study of a function studied on its own

vars == <<now, envRecommended, mailerPrompt, exited, warmupSchedule, startDate,
          recipientManager, loadResult, isRunning, dailyEmailCountSent,
          emailIntervalId, nextDayTimeoutId, timers, inflight,
          ticks, calls, lastOp, pass, mailed, probe>>

config == <<envRecommended, mailerPrompt, warmupSchedule, startDate, probe>>

\* ---------------------------------------------------------------- calendar
\* Day index d counts local days from January 25th (day 0); day 7 is
\* February 1st.  DayOfMonth models Date.prototype.getDate().
EpochDayOfYear == 24
JanuaryDays == 31
FebruaryDays == 28

DayOf(t) == t \div DayMs

DayOfMonth(d) ==
    LET y == d + EpochDayOfYear
    IN  IF y < JanuaryDays THEN y + 1
        ELSE IF y < JanuaryDays + FebruaryDays THEN y - JanuaryDays + 1
        ELSE y - JanuaryDays - FebruaryDays + 1

\* nextMidnight.setHours(24, 0, 0, 0): the midnight that ends the day of t
NextMidnight(t) == (DayOf(t) + 1) * DayMs

\* variant: the floor of the delay is dropped
Max_First(a, b) == a

Max(a, b) == IF a >= b THEN a ELSE b

\* ------------------------------------------------------- schedule and week
getCurrentWeekAt(t) ==
    LET diffMs == t - startDate
        diffDays == diffMs \div DayMs
    IN  (diffDays \div DaysPerWeek) + 1

\* variant: the smallest key is taken
MaxWeek_Smallest(s) == CHOOSE w \in DOMAIN s : \A v \in DOMAIN s : w <= v

\* Math.max(...Object.keys(this.warmupSchedule).map(Number))
MaxWeek(s) == CHOOSE w \in DOMAIN s : \A v \in DOMAIN s : v <= w

\* this.warmupSchedule[week] is falsy when the key is absent or its value is 0
getEmailsPerDayAt(t) ==
    LET week == getCurrentWeekAt(t)
    IN  IF week \in DOMAIN warmupSchedule /\ warmupSchedule[week] # 0
        THEN warmupSchedule[week]
        ELSE warmupSchedule[MaxWeek(warmupSchedule)]

getStatus ==
    [isRunning |-> isRunning,
     currentWeek |-> getCurrentWeekAt(now),
     emailsPerDay |-> getEmailsPerDayAt(now),
     emailsSentToday |-> dailyEmailCountSent,
     remainingEmailsToday |-> getEmailsPerDayAt(now) - dailyEmailCountSent]

\* -------------------------------------------------------- RecipientManager
RECURSIVE Dedup(_, _)
\* new Set(recipients): first occurrences, in insertion order
Dedup(input, acc) ==
    IF input = <<>> THEN acc
    ELSE IF \E i \in 1..Len(acc) : acc[i] = Head(input)
         THEN Dedup(Tail(input), acc)
         ELSE Dedup(Tail(input), Append(acc, Head(input)))

\* iterator = number of members the Set iterator has already yielded
NewRecipientManager(input) == [recipients |-> Dedup(input, <<>>), iterator |-> 0]

\* variant: an exhausted iterator is not replaced, the last member repeats
getNextRecipient_NoWrap(rm) ==
    IF rm.iterator < Len(rm.recipients)
    THEN [value |-> rm.recipients[rm.iterator + 1],
          rm |-> [rm EXCEPT !.iterator = rm.iterator + 1]]
    ELSE IF Len(rm.recipients) = 0
         THEN [value |-> Undefined, rm |-> rm]
         ELSE [value |-> rm.recipients[Len(rm.recipients)], rm |-> rm]

\* iterator.next(); when done, a fresh iterator and its first value
getNextRecipient(rm) ==
    IF rm.iterator < Len(rm.recipients)
    THEN [value |-> rm.recipients[rm.iterator + 1],
          rm |-> [rm EXCEPT !.iterator = rm.iterator + 1]]
    ELSE IF Len(rm.recipients) = 0
         THEN [value |-> Undefined, rm |-> [rm EXCEPT !.iterator = 0]]
         ELSE [value |-> rm.recipients[1], rm |-> [rm EXCEPT !.iterator = 1]]

getSize(rm) == Len(rm.recipients)


\* ------------------------------------------------------------------ timers
HourMs == 3600000
MorningHour == 10         \* this.startDate.getHours() < 10

\* Date.prototype.getHours()
HoursOf(t) == (t % DayMs) \div HourMs

Earliest(tm) == \A other \in timers : tm.due <= other.due

\* clearInterval / clearTimeout: disarms the timer with this id, if armed
ClearTimer(ts, id) == {tm \in ts : tm.id # id}

\* The fields a routine of the scheduler may assign
Frame ==
    [timers |-> timers,
     emailIntervalId |-> emailIntervalId,
     nextDayTimeoutId |-> nextDayTimeoutId,
     dailyEmailCountSent |-> dailyEmailCountSent,
     pass |-> pass]

\* variant: the handle is dropped but the interval stays armed
clearEmailInterval_KeepsArmed(f) == [f EXCEPT !.emailIntervalId = NULL]

\* if (this.emailIntervalId) { clearInterval(this.emailIntervalId); this.emailIntervalId = null; }
clearEmailInterval(f) ==
    IF f.emailIntervalId # NULL
    THEN [f EXCEPT !.timers = ClearTimer(@, f.emailIntervalId), !.emailIntervalId = NULL]
    ELSE f

\* variant: the rollover timeout is left alone
clearNextDayTimeout_Skipped(f) == f

\* if (this.nextDayTimeoutId) { clearTimeout(this.nextDayTimeoutId); this.nextDayTimeoutId = null; }
clearNextDayTimeout(f) ==
    IF f.nextDayTimeoutId # NULL
    THEN [f EXCEPT !.timers = ClearTimer(@, f.nextDayTimeoutId), !.nextDayTimeoutId = NULL]
    ELSE f

NoPass ==
    [no |-> 0, quota |-> 0, day |-> 0, deadline |-> 0, msToMidnight |-> 0,
     delay |-> 0, sends |-> 0, late |-> 0, completed |-> 0, byStart |-> FALSE,
     clean |-> TRUE, zeroSeen |-> FALSE]

\* remainingEmailsToday of getStatus() at time t with count sent
RemainingAt(t, count) == getEmailsPerDayAt(t) - count

Seen(p, t, count) == [p EXCEPT !.zeroSeen = @ \/ RemainingAt(t, count) = 0]

\* The handle setInterval/setTimeout returns: one that names no armed timer
\* and that no field of the scheduler still holds
NewHandle(f) ==
    CHOOSE id \in 1..(Cardinality(f.timers) + 3) :
        /\ \A tm \in f.timers : tm.id # id
        /\ id \notin {f.emailIntervalId, f.nextDayTimeoutId}
        /\ \A other \in 1..(id - 1) :
              \/ \E tm \in f.timers : tm.id = other
              \/ other \in {f.emailIntervalId, f.nextDayTimeoutId}

scheduleNextDay(f, t, running) ==
    IF ~running THEN f
    ELSE LET nextMidnight == NextMidnight(t)
             timeUntilMidnight == nextMidnight - t
         IN  [f EXCEPT
                !.timers = @ \cup {[id |-> NewHandle(f), kind |-> "rollover",
                                    due |-> t + timeUntilMidnight,
                                    delay |-> timeUntilMidnight, quota |-> 0]},
                !.nextDayTimeoutId = NewHandle(f)]

scheduleEmailsForToday(f, t, running, byStart) ==
    LET emailsToSend == getEmailsPerDayAt(t)
        timeUntilMidnight == NextMidnight(t) - t
        delayBetweenEmails ==
            IF emailsToSend > 0 THEN timeUntilMidnight \div emailsToSend ELSE 0
        effectiveDelay == Max(delayBetweenEmails, MinDelayMs)
        f0 == [f EXCEPT
                 !.dailyEmailCountSent = 0,
                 !.pass = [no |-> f.pass.no + 1, quota |-> emailsToSend,
                           day |-> DayOf(t), deadline |-> NextMidnight(t),
                           msToMidnight |-> timeUntilMidnight,
                           delay |-> IF emailsToSend > 0 THEN effectiveDelay ELSE 0,
                           sends |-> 0, late |-> 0, completed |-> 0,
                           byStart |-> byStart, clean |-> TRUE,
                           zeroSeen |-> RemainingAt(t, 0) = 0]]
    IN  IF emailsToSend <= 0
        THEN scheduleNextDay(f0, t, running)
        ELSE [f0 EXCEPT
                !.timers = @ \cup {[id |-> NewHandle(f0), kind |-> "tick",
                                    due |-> t + effectiveDelay,
                                    delay |-> effectiveDelay,
                                    quota |-> emailsToSend]},
                !.emailIntervalId = NewHandle(f0)]

\* Assigns the fields of a frame to the scheduler
Assign(f) ==
    /\ timers' = f.timers
    /\ emailIntervalId' = f.emailIntervalId
    /\ nextDayTimeoutId' = f.nextDayTimeoutId
    /\ dailyEmailCountSent' = f.dailyEmailCountSent
    /\ pass' = f.pass

NoArg == [kind |-> "none", data |-> <<>>]

Op(name) ==
    [op |-> name, arg |-> NoArg, ready |-> FALSE, today |-> FALSE,
     wasRunning |-> isRunning]

\* With a prompt mailer a send settles before the next timer or call runs
Quiet == mailerPrompt => inflight = EmptyBag

\* ----------------------------------------------------------------- actions
RecipientFiles ==
    {[kind |-> "unreadable", data |-> <<>>],
     [kind |-> "notArray", data |-> <<>>],
     [kind |-> "array", data |-> <<>>],
     [kind |-> "array", data |-> <<"a", "b", "a">>]}

\* variant: an empty array is accepted
LoadFails_EmptyAccepted(file) == file.kind # "array"

\* readFile/JSON.parse reject, the content is not an array, or the
\* RecipientManager constructor rejects an empty array
LoadFails(file) == file.kind # "array" \/ Len(file.data) = 0

loadRecipients(file) ==
    /\ ~exited
    /\ Quiet
    /\ calls < MaxCalls
    /\ calls' = calls + 1
    /\ lastOp' = [Op("loadRecipients") EXCEPT !.arg = file]
    /\ IF LoadFails(file)
       THEN /\ loadResult' = "error"
            /\ UNCHANGED <<recipientManager, mailed>>
       ELSE /\ loadResult' = "ok"
            /\ recipientManager' = NewRecipientManager(file.data)
            /\ mailed' = 0
    /\ UNCHANGED <<now, config, exited, isRunning, dailyEmailCountSent,
                   emailIntervalId, nextDayTimeoutId, timers,
                   inflight, ticks, pass>>

\* variant: start() does not return when already running
startReturnsEarly_NoRunningCheck == recipientManager = NullManager

\* the two early returns of start(): already running, no recipientManager
startReturnsEarly == isRunning \/ recipientManager = NullManager

\* the start date's day of month is below today's day of month
startDateInPast == DayOfMonth(DayOf(startDate)) < DayOfMonth(DayOf(now))

\* the morning recommendation ends the process when env.RECOMMENDED is set
startExits == HoursOf(startDate) < MorningHour /\ envRecommended

start ==
    /\ ~exited
    /\ Quiet
    /\ calls < MaxCalls
    /\ calls' = calls + 1
    /\ lastOp' = [Op("start") EXCEPT
                    !.ready = recipientManager # NullManager /\ ~isRunning,
                    !.today = startDate = DayOf(now) * DayMs]
    /\ IF startReturnsEarly
       THEN UNCHANGED <<exited, isRunning, dailyEmailCountSent, emailIntervalId,
                        nextDayTimeoutId, timers, pass>>
       ELSE /\ isRunning' = TRUE
            /\ IF startDateInPast
               THEN UNCHANGED <<exited, dailyEmailCountSent, emailIntervalId,
                                nextDayTimeoutId, timers, pass>>
               ELSE IF startExits
               THEN /\ exited' = TRUE
                    /\ UNCHANGED <<dailyEmailCountSent, emailIntervalId,
                                   nextDayTimeoutId, timers, pass>>
               ELSE /\ Assign(scheduleEmailsForToday(Frame, now, TRUE, TRUE))
                    /\ UNCHANGED exited
    /\ UNCHANGED <<now, config, recipientManager, loadResult, inflight, ticks,
                   mailed>>

stop ==
    /\ ~exited
    /\ Quiet
    /\ calls < MaxCalls
    /\ calls' = calls + 1
    /\ lastOp' = Op("stop")
    /\ IF ~isRunning
       THEN UNCHANGED <<isRunning, emailIntervalId, nextDayTimeoutId, timers,
                        dailyEmailCountSent, pass>>
       ELSE /\ isRunning' = FALSE
            /\ Assign(clearNextDayTimeout(clearEmailInterval(Frame)))
    /\ UNCHANGED <<now, config, exited, recipientManager, loadResult,
                   inflight, ticks, mailed>>


\* The callback handed to setInterval, run for the armed interval tm
tick ==
    /\ ~exited
    /\ Quiet
    /\ ticks < MaxTicks
    /\ \E tm \in timers :
         /\ tm.kind = "tick"
         /\ Earliest(tm)
         /\ tm.due <= MaxTime
         /\ now' = tm.due
         /\ ticks' = ticks + 1
         /\ LET rearmed == (timers \ {tm}) \cup {[tm EXCEPT !.due = tm.due + tm.delay]}
                emailsToSend == tm.quota
            IN  IF dailyEmailCountSent >= emailsToSend
                THEN LET f == clearEmailInterval(
                                  [Frame EXCEPT !.timers = rearmed,
                                                !.pass = Seen(pass, tm.due,
                                                              dailyEmailCountSent)])
                     IN  /\ Assign(scheduleNextDay(f, tm.due, isRunning))
                         /\ lastOp' = Op("tickDone")
                         /\ UNCHANGED <<recipientManager, inflight, mailed>>
                ELSE \* sendRandomEmail(): recipient, then sender, then the mailer
                     /\ timers' = rearmed
                     /\ UNCHANGED <<emailIntervalId, nextDayTimeoutId,
                                    dailyEmailCountSent>>
                     /\ IF recipientManager = NullManager
                        THEN /\ lastOp' = Op("tickThrow")
                             /\ pass' = Seen([pass EXCEPT !.clean = FALSE], tm.due,
                                             dailyEmailCountSent)
                             /\ UNCHANGED <<recipientManager, inflight, mailed>>
                        ELSE LET next == getNextRecipient(recipientManager)
                             IN  /\ recipientManager' = next.rm
                                 /\ \E senderOk \in BOOLEAN :
                                      IF senderOk
                                      THEN /\ lastOp' = Op("tickSend")
                                           /\ inflight' = inflight (+) SetToBag(
                                                {[to |-> next.value, pass |-> pass.no]})
                                           /\ mailed' = mailed + 1
                                           /\ pass' = Seen(
                                                [pass EXCEPT
                                                   !.sends = @ + 1,
                                                   !.late = IF tm.due > pass.deadline
                                                            THEN @ + 1 ELSE @],
                                                tm.due, dailyEmailCountSent)
                                      ELSE \* getRandomSender() throws: caught by the callback
                                           /\ lastOp' = Op("tickThrow")
                                           /\ pass' = Seen([pass EXCEPT !.clean = FALSE],
                                                           tm.due, dailyEmailCountSent)
                                           /\ UNCHANGED <<inflight, mailed>>
    /\ UNCHANGED <<config, exited, loadResult, isRunning, calls>>

\* The callback handed to setTimeout by scheduleNextDay
rollover ==
    /\ ~exited
    /\ Quiet
    /\ \E tm \in timers :
         /\ tm.kind = "rollover"
         /\ Earliest(tm)
         /\ tm.due <= MaxTime
         /\ now' = tm.due
         /\ Assign(scheduleEmailsForToday([Frame EXCEPT !.timers = timers \ {tm}],
                                          tm.due, isRunning, FALSE))
    /\ lastOp' = Op("rollover")
    /\ UNCHANGED <<config, exited, recipientManager, loadResult, isRunning,
                   inflight, ticks, calls, mailed>>

\* A sendEmailFunction promise settles: sendRandomEmail resolves either way
\* and the callback runs this.dailyEmailCountSent++
sendSettles ==
    /\ ~exited
    /\ \E send \in BagToSet(inflight) : \E ok \in BOOLEAN :
         /\ inflight' = inflight (-) SetToBag({send})
         /\ dailyEmailCountSent' = dailyEmailCountSent + 1
         /\ pass' = Seen([pass EXCEPT
                            !.clean = @ /\ ok,
                            !.completed = IF send.pass = pass.no
                                          THEN @ + 1 ELSE @],
                         now, dailyEmailCountSent + 1)
         /\ lastOp' = Op("sendSettles")
    /\ UNCHANGED <<now, config, exited, recipientManager, loadResult, isRunning,
                   emailIntervalId, nextDayTimeoutId, timers,
                   ticks, calls, mailed>>

\* Wall-clock time passes while no timer is armed (an armed timer advances
\* the clock to its due time when it fires)
ElapseSteps == {DayMs}

elapse ==
    /\ ~exited
    /\ Quiet
    /\ \E d \in ElapseSteps :
         /\ now + d <= MaxTime
         /\ timers = {}
         /\ now' = now + d
         /\ pass' = Seen(pass, now + d, dailyEmailCountSent)
    /\ lastOp' = Op("elapse")
    /\ UNCHANGED <<config, exited, recipientManager, loadResult, isRunning,
                   dailyEmailCountSent, emailIntervalId, nextDayTimeoutId,
                   timers, inflight, ticks, calls, mailed>>

\* ------------------------------------------------------------------- Init
InitDays == {6, 7}
LateMs == 1500            \* a start 1.5 s before midnight
InitOffsets == {0, DayMs \div 2, DayMs - LateMs}
StartDays == {1, 6, 7}
Schedules == {(1 :> 2), (1 :> 1) @@ (2 :> 3), (1 :> 0)}

NoProbe == [fn |-> "none"]

\* The fields of a scheduler as its constructor leaves them
Constructed ==
    /\ exited = FALSE
    /\ recipientManager = NullManager
    /\ loadResult = "none"
    /\ isRunning = FALSE
    /\ dailyEmailCountSent = 0
    /\ emailIntervalId = NULL
    /\ nextDayTimeoutId = NULL
    /\ timers = {}
    /\ inflight = EmptyBag
    /\ ticks = 0
    /\ calls = 0
    /\ lastOp = [op |-> "new", arg |-> NoArg, ready |-> FALSE, today |-> FALSE,
                 wasRunning |-> FALSE]
    /\ pass = NoPass
    /\ mailed = 0

Init ==
    /\ now \in {d * DayMs + o : d \in InitDays, o \in InitOffsets}
    /\ envRecommended \in BOOLEAN
    /\ mailerPrompt \in BOOLEAN
    /\ warmupSchedule \in Schedules
    /\ startDate \in {d * DayMs : d \in StartDays}
    /\ probe = NoProbe
    /\ Constructed

LoadRecipients == \E file \in RecipientFiles : loadRecipients(file)

Next ==
    \/ LoadRecipients
    \/ start
    \/ stop
    \/ tick
    \/ rollover
    \/ sendSettles
    \/ elapse

Spec == Init /\ [][Next]_vars


\* ------------------------------------------------------------ observations
TickTimers == {tm \in timers : tm.kind = "tick"}
RolloverTimers == {tm \in timers : tm.kind = "rollover"}
InFlight == BagCardinality(inflight)

\* a step in which the mailer is invoked
MailerInvoked == BagCardinality(inflight') > BagCardinality(inflight)
\* a step in which a mailer call settles
MailerSettled == BagCardinality(inflight') < BagCardinality(inflight)

SchedulerState ==
    <<isRunning, dailyEmailCountSent, emailIntervalId, nextDayTimeoutId, timers,
      recipientManager, inflight>>

\* ------------------------------------------------------------------ claims

\* C1: within one daily scheduling pass the number of mailer invocations
\* never exceeds the quota computed for that pass, whatever the mailer's
\* latency.
C1_SendsWithinQuota == pass.sends <= Max(pass.quota, 0)

\* C2: at no time are two mailer invocations in flight simultaneously.
C2_OneSendInFlight == InFlight <= 1

\* C3: while the scheduler is stopped (after stop(), before a later start())
\* no step invokes the mailer, whatever was armed or in flight at stop().
C3_NoSendAfterStop == [][~isRunning => ~MailerInvoked]_vars

C3_Witness ==
    /\ lastOp.op = "stop"
    /\ lastOp.wasRunning
    /\ ~isRunning
    /\ inflight # EmptyBag
    /\ pass.sends > 0

\* C4: with a prompt mailer that does not fail, the pass begun by a rollover
\* begins on the day after the day the previous pass began on.
C4_NextPassNextDay ==
    [][(mailerPrompt /\ pass.clean /\ pass'.no = pass.no + 1 /\ ~pass'.byStart)
         => pass'.day = pass.day + 1]_vars

\* C5: at most one repeating tick timer and at most one one-shot rollover
\* timer is armed in every reachable state.
C5_OneTimerOfEachKind ==
    /\ Cardinality(TickTimers) <= 1
    /\ Cardinality(RolloverTimers) <= 1

C5_Witness ==
    /\ pass.no >= 2
    /\ pass.byStart
    /\ Cardinality(TickTimers) = 1
    /\ inflight # EmptyBag

\* C6: for a pass with quota Q > 0 and floor(M / Q) >= 1000 and a prompt
\* mailer that never fails, when the tick that ends the pass has run exactly
\* Q sends were made, none after the pass's midnight, and
\* getStatus().remainingEmailsToday has been 0 during the pass.
C6_Pre ==
    /\ mailerPrompt
    /\ pass.clean
    /\ pass.quota > 0
    /\ pass.msToMidnight \div pass.quota >= MinDelayMs

C6_QuotaMetByMidnight ==
    (C6_Pre /\ lastOp.op = "tickDone")
        => (pass.sends = pass.quota /\ pass.late = 0 /\ pass.zeroSeen)

\* C7: every send attempt of a tick increases dailyCount by exactly one when
\* it completes, at whichever step it failed, and leaves isRunning and the
\* armed tick timer as they are.
C7_EveryAttemptCounted ==
    [][/\ (ticks' = ticks + 1 /\ lastOp'.op = "tickThrow")
            => /\ dailyEmailCountSent' = dailyEmailCountSent + 1
               /\ isRunning' = isRunning
               /\ TickTimers' # {}
       /\ MailerSettled
            => /\ dailyEmailCountSent' = dailyEmailCountSent + 1
               /\ isRunning' = isRunning
               /\ timers' = timers]_vars

\* C8: start() in Ready or Stopped with a start date equal to today ends
\* with the scheduler Running and the daily routine entered.
C8_StartEntersRoutine ==
    (lastOp.op = "start" /\ lastOp.ready /\ lastOp.today)
        => /\ ~exited
           /\ isRunning
           /\ dailyEmailCountSent = 0
           /\ pass.byStart
           /\ (pass.quota > 0 => Cardinality(TickTimers) = 1)

\* C9: without a successful loadRecipients() the scheduler is not running,
\* has no timer armed and has invoked no mailer; a failing loadRecipients()
\* reports its error and installs no rotator.
C9_FailingFile(file) == file.kind \in {"unreadable", "notArray"} \/ file.data = <<>>

C9_NothingWithoutRecipients ==
    [][/\ recipientManager' = NullManager
            => (~isRunning' /\ timers' = {} /\ inflight' = EmptyBag /\ pass'.no = 0)
       /\ (lastOp'.op = "loadRecipients" /\ C9_FailingFile(lastOp'.arg))
            => (loadResult' = "error" /\ recipientManager' = recipientManager)]_vars

C9_Witness ==
    /\ lastOp.op = "start"
    /\ recipientManager = NullManager
    /\ loadResult = "error"

\* C10: after stop() no timer is armed and isRunning is false; stop() on a
\* scheduler that is not running changes no state.
C10_StopIdempotent ==
    [][(lastOp'.op = "stop" /\ calls' = calls + 1)
         => /\ ~isRunning'
            /\ timers' = {}
            /\ (~isRunning => UNCHANGED SchedulerState)]_vars

C10_Witness ==
    /\ lastOp.op = "stop"
    /\ ~lastOp.wasRunning
    /\ pass.no > 0
    /\ timers = {}


\* C11: while a mailer call is pending and the scheduler is running, no
\* further send attempt is started and no rollover begins a new pass.
C11_HungSendBlocksCadence ==
    [][(inflight # EmptyBag /\ isRunning)
         => (~MailerInvoked /\ pass'.no = pass.no)]_vars

\* C19: the j-th mailer invocation since the recipients were loaded goes to
\* recipient ((j - 1) mod n) of the loaded order, across rollovers,
\* stop()/start() cycles, overlapping and failing sends.
C19_Expected(rm, j) == rm.recipients[((j - 1) % Len(rm.recipients)) + 1]

C19_SendsFollowRotation ==
    [][MailerInvoked
         => \E send \in BagToSet(inflight') :
              /\ CopiesIn(send, inflight') > CopiesIn(send, inflight)
              /\ send.to = C19_Expected(recipientManager, mailed')]_vars


\* ---------------------------------------------------------------------
\* createWarmupSchedule(startValue, increment, targetEmails) on its own
\* ---------------------------------------------------------------------

\* largest argument value tried
MaxRamp == 4

\* iterations of the while loop followed before the run is given up
MaxBuildWeeks == MaxRamp + 2

RampArgs == -1 .. MaxRamp

\* every variable but probe
scheduler == <<now, envRecommended, mailerPrompt, exited, warmupSchedule,
               startDate, recipientManager, loadResult, isRunning,
               dailyEmailCountSent, emailIntervalId, nextDayTimeoutId, timers,
               inflight, ticks, calls, lastOp, pass, mailed>>

\* an EmailWarmup that was constructed and is left alone
Idle ==
    /\ now = 0
    /\ envRecommended = TRUE
    /\ mailerPrompt = TRUE
    /\ warmupSchedule = (1 :> 1)
    /\ startDate = 0
    /\ Constructed

\* warmupSchedule[week] = value
Store(sched, week, value) ==
    [w \in DOMAIN sched \cup {week} |-> IF w = week THEN value ELSE sched[w]]

\* entry of createWarmupSchedule: empty object, week = 1, count = startValue
BuildCall(startValue, increment, targetEmails) ==
    [fn |-> "createWarmupSchedule",
     startValue |-> startValue,
     increment |-> increment,
     targetEmails |-> targetEmails,
     warmupSchedule |-> <<>>,
     week |-> 1,
     currentEmailCount |-> startValue,
     pc |-> "while"]

BuildInit ==
    /\ probe \in {BuildCall(sv, inc, tgt) :
                    sv \in RampArgs, inc \in RampArgs, tgt \in RampArgs}
    /\ Idle

\* one iteration of the while loop
buildWeek ==
    /\ probe.pc = "while"
    /\ probe.currentEmailCount <= probe.targetEmails
    /\ probe.week <= MaxBuildWeeks
    /\ probe' = [probe EXCEPT
                   !.warmupSchedule =
                       Store(@, probe.week, probe.currentEmailCount),
                   !.week = @ + 1,
                   !.currentEmailCount = @ + probe.increment]
    /\ UNCHANGED scheduler

\* the schedule with its last week forced to the target
FinalWeek_NoClamp(p) == p.warmupSchedule

FinalWeek(p) ==
    IF p.currentEmailCount - p.increment < p.targetEmails
    THEN Store(p.warmupSchedule, p.week, p.targetEmails)
    ELSE p.warmupSchedule

\* the loop condition fails: clamp and return
buildReturn ==
    /\ probe.pc = "while"
    /\ ~(probe.currentEmailCount <= probe.targetEmails)
    /\ probe' = [probe EXCEPT !.warmupSchedule = FinalWeek(probe),
                              !.pc = "returned"]
    /\ UNCHANGED scheduler

BuildNext ==
    \/ buildWeek
    \/ buildReturn

BuildSpec == BuildInit /\ [][BuildNext]_vars

ValidRamp(p) ==
    /\ p.startValue > 0
    /\ p.increment > 0
    /\ p.targetEmails >= p.startValue

\* C13: for startValue > 0, increment > 0 and target >= startValue the
\* returned schedule has the keys 1..K with K >= 1, week 1 = startValue,
\* every later non-final week = previous week + increment, non-decreasing
\* values, and the final week = target.
C13_RampShape ==
    (probe.pc = "returned" /\ ValidRamp(probe))
      => LET s == probe.warmupSchedule
             K == Cardinality(DOMAIN s)
         IN  /\ K >= 1
             /\ DOMAIN s = 1 .. K
             /\ s[1] = probe.startValue
             /\ \A w \in 2 .. (K - 1) : s[w] = s[w - 1] + probe.increment
             /\ \A w \in 2 .. K : s[w] >= s[w - 1]
             /\ s[K] = probe.targetEmails

\* a valid ramp returned whose last step would have overshot the target
C13_Witness ==
    /\ probe.pc = "returned"
    /\ ValidRamp(probe)
    /\ Cardinality(DOMAIN probe.warmupSchedule) >= 3
    /\ probe.currentEmailCount - probe.increment < probe.targetEmails

\* C14: a call with increment <= 0 fails with InvalidRampError: it runs no
\* iteration of the loop and returns no schedule.
C14_NonPositiveIncrementRejected ==
    probe.increment <= 0 => (probe.week = 1 /\ probe.pc # "returned")

\* C15: a call with a positive increment and startValue <= 0 or
\* target < startValue fails with InvalidRampError: it returns no schedule.
C15_BadRangeRejected ==
    (probe.increment > 0
       /\ (probe.startValue <= 0 \/ probe.targetEmails < probe.startValue))
      => probe.pc # "returned"


\* ---------------------------------------------------------------------
\* RecipientManager on its own
\* ---------------------------------------------------------------------

MaxInput == 3     \* longest recipients array tried
MaxNexts == 7     \* getNextRecipient() calls followed
MaxEdits == 2     \* addRecipient() / removeRecipient() calls followed

Recipients == {"a", "b", "c"}
EditArgs == {"a", "b", "d"}

\* the non-empty recipients arrays, duplicates included
RotorInputs == UNION {[1 .. n -> Recipients] : n \in 1 .. MaxInput}

\* every variable but probe and recipientManager
apart == <<now, envRecommended, mailerPrompt, exited, warmupSchedule,
           startDate, loadResult, isRunning, dailyEmailCountSent,
           emailIntervalId, nextDayTimeoutId, timers, inflight,
           ticks, calls, lastOp, pass, mailed>>

Members(rm) == {rm.recipients[i] : i \in 1 .. Len(rm.recipients)}

\* variant: the iterator is not replaced after the add
addRecipient_KeepsCursor(rm, recipient) ==
    [rm EXCEPT !.recipients = IF recipient \in Members(rm) THEN @
                              ELSE Append(@, recipient)]

\* Set.add keeps a present member in place and appends an absent one;
\* the iterator is replaced by a fresh one
addRecipient(rm, recipient) ==
    [recipients |-> IF recipient \in Members(rm) THEN rm.recipients
                    ELSE Append(rm.recipients, recipient),
     iterator |-> 0]

\* Set.delete drops the member, the others keep their order;
\* the iterator is replaced by a fresh one
removeRecipient(rm, recipient) ==
    [recipients |-> SelectSeq(rm.recipients, LAMBDA r : r # recipient),
     iterator |-> 0]

RotorCall(input) ==
    [fn |-> "RecipientManager",
     input |-> input,
     nexts |-> 0,           \* getNextRecipient() calls so far
     since |-> 0,           \* of them, since the last add or remove
     edits |-> 0,           \* addRecipient() and removeRecipient() calls so far
     last |-> "none",       \* the last call made
     returned |-> Undefined,
     cursor |-> 0,          \* iterator position at the last add or remove
     changed |-> FALSE]     \* the last add or remove changed the set

RotorInit ==
    /\ probe \in {RotorCall(input) : input \in RotorInputs}
    /\ Idle

\* new RecipientManager(input)
rotorNew ==
    /\ probe.last = "none"
    /\ recipientManager' = NewRecipientManager(probe.input)
    /\ probe' = [probe EXCEPT !.last = "new"]
    /\ UNCHANGED apart

rotorNext ==
    /\ probe.last # "none"
    /\ probe.nexts < MaxNexts
    /\ LET got == getNextRecipient(recipientManager)
       IN  /\ recipientManager' = got.rm
           /\ probe' = [probe EXCEPT !.nexts = @ + 1,
                                     !.since = @ + 1,
                                     !.last = "next",
                                     !.returned = got.value]
    /\ UNCHANGED apart

rotorEdited(name, rm) ==
    /\ recipientManager' = rm
    /\ probe' = [probe EXCEPT !.edits = @ + 1,
                              !.since = 0,
                              !.last = name,
                              !.cursor = recipientManager.iterator,
                              !.changed =
                                  rm.recipients # recipientManager.recipients]
    /\ UNCHANGED apart

rotorAdd ==
    /\ probe.last # "none"
    /\ probe.edits < MaxEdits
    /\ \E r \in EditArgs : rotorEdited("add", addRecipient(recipientManager, r))

rotorRemove ==
    /\ probe.last # "none"
    /\ probe.edits < MaxEdits
    /\ \E r \in EditArgs :
         rotorEdited("remove", removeRecipient(recipientManager, r))

RotorNext ==
    \/ rotorNew
    \/ rotorNext
    \/ rotorAdd
    \/ rotorRemove

RotorSpec == RotorInit /\ [][RotorNext]_vars

\* positions of the first occurrences in the input
C16_Firsts(input) ==
    {i \in 1 .. Len(input) : \A j \in 1 .. (i - 1) : input[j] # input[i]}

\* the r-th distinct recipient of the input, by first occurrence
C16_Nth(input, r) ==
    LET firsts == C16_Firsts(input)
    IN  input[CHOOSE i \in firsts :
                Cardinality({j \in firsts : j <= i}) = r]

\* C16: on a manager built from a non-empty input and not mutated, the k-th
\* getNextRecipient() returns element ((k - 1) mod n) of the first-occurrence
\* order of the input, n being the number of distinct recipients.
C16_RoundRobin ==
    (probe.last = "next" /\ probe.edits = 0)
      => LET n == Cardinality(C16_Firsts(probe.input))
         IN  probe.returned
               = C16_Nth(probe.input, ((probe.nexts - 1) % n) + 1)

\* an input with a duplicate, called past a full cycle
C16_Witness ==
    /\ probe.last = "next"
    /\ probe.edits = 0
    /\ Len(probe.input) > Cardinality(C16_Firsts(probe.input))
    /\ Cardinality(C16_Firsts(probe.input)) >= 2
    /\ probe.nexts > Cardinality(C16_Firsts(probe.input))

\* C17: after an addRecipient() or removeRecipient() that leaves the set
\* non-empty, made at any cursor position, the m-th following
\* getNextRecipient() returns element ((m - 1) mod n) of the current
\* insertion order: the first member first, every member once per cycle.
C17_EditResetsCursor ==
    (probe.last = "next" /\ probe.edits > 0
       /\ Len(recipientManager.recipients) > 0)
      => LET n == Len(recipientManager.recipients)
         IN  probe.returned
               = recipientManager.recipients[((probe.since - 1) % n) + 1]

\* an edit that changed nothing, made in mid-cycle, followed past a full cycle
C17_Witness ==
    /\ probe.last = "next"
    /\ probe.edits > 0
    /\ ~probe.changed
    /\ probe.cursor > 0
    /\ Len(recipientManager.recipients) >= 2
    /\ probe.cursor < Len(recipientManager.recipients)
    /\ probe.since > Len(recipientManager.recipients)

\* C18: getNextRecipient() never returns a value that is not a member of the
\* set; on a set emptied by removals it returns nothing (it fails with
\* EmptyRecipientsError).
C18_OnlyMembersReturned ==
    probe.last = "next" => probe.returned \in Members(recipientManager)


\* ---------------------------------------------------------------------
\* getCurrentWeek() on its own
\* ---------------------------------------------------------------------

MaxWeekDays == 15           \* days of clock followed
QuarterDayMs == DayMs \div 4

\* config.startDate as given: a day and a time of that day
GivenStartDates ==
    {d * DayMs + o : d \in {0, 1},
                     o \in {0, QuarterDayMs, DayMs \div 2, DayMs - LateMs}}

\* every variable but probe, now and startDate
unrelated == <<envRecommended, mailerPrompt, exited, warmupSchedule,
               recipientManager, loadResult, isRunning, dailyEmailCountSent,
               emailIntervalId, nextDayTimeoutId, timers, inflight,
               ticks, calls, lastOp, pass, mailed>>

\* variant: the time of day of the given start date is kept
setHoursZero_Kept(t) == t

\* this.startDate.setHours(0, 0, 0, 0)
setHoursZero(t) == t - (t % DayMs)

WeekCall(given) ==
    [fn |-> "getCurrentWeek",
     startDate |-> given,     \* config.startDate
     last |-> "none",         \* the last call made
     week |-> 0]              \* what getCurrentWeek() returned

WeekInit ==
    /\ probe \in {WeekCall(given) : given \in GivenStartDates}
    /\ Idle

\* new EmailWarmup({startDate, ...})
weekNew ==
    /\ probe.last = "none"
    /\ startDate' = setHoursZero(probe.startDate)
    /\ probe' = [probe EXCEPT !.last = "new"]
    /\ UNCHANGED <<now, unrelated>>

\* the clock reaches the last millisecond of a quarter of a day, or its end
weekElapse ==
    /\ probe.last # "none"
    /\ \E t \in {(now \div QuarterDayMs + 1) * QuarterDayMs - 1,
                 (now \div QuarterDayMs + 1) * QuarterDayMs} :
         /\ t > now
         /\ t <= MaxWeekDays * DayMs
         /\ now' = t
    /\ probe' = [probe EXCEPT !.last = "elapse"]
    /\ UNCHANGED <<startDate, unrelated>>

weekCall ==
    /\ probe.last # "none"
    /\ probe' = [probe EXCEPT !.last = "getCurrentWeek",
                              !.week = getCurrentWeekAt(now)]
    /\ UNCHANGED <<now, startDate, unrelated>>

WeekNext ==
    \/ weekNew
    \/ weekElapse
    \/ weekCall

WeekSpec == WeekInit /\ [][WeekNext]_vars

\* full 24-hour days from local midnight of the given start day to now
C20_FullDays ==
    LET midnight == DayOf(probe.startDate) * DayMs
    IN  CHOOSE d \in -2 .. MaxWeekDays + 1 :
          /\ midnight + d * DayMs <= now
          /\ now < midnight + (d + 1) * DayMs

\* C20: getCurrentWeek() returns floor(d / 7) + 1, d being the full 24-hour
\* days elapsed since local midnight of the day given as start date: 1 from
\* the start day through day 6, 2 once 7 full days have elapsed, whatever the
\* time of day of the given start date.
C20_WeekFromStartMidnight ==
    probe.last = "getCurrentWeek"
      => LET d == C20_FullDays
         IN  /\ DaysPerWeek * (probe.week - 1) <= d
             /\ d < DaysPerWeek * probe.week
             /\ (0 <= d /\ d <= 6) => probe.week = 1
             /\ (7 <= d /\ d <= 13) => probe.week = 2

\* seven full days after the start day's midnight, at a time of day earlier
\* than the one the start date was given with
C20_Witness ==
    /\ probe.last = "getCurrentWeek"
    /\ C20_FullDays = 7
    /\ now % DayMs < probe.startDate % DayMs
    /\ probe.week = 2


\* ---------------------------------------------------------------------
\* The daily loop without end: stop() is never called, the mailer is prompt,
\* and the clock is counted from the midnight that began the current day
\* ---------------------------------------------------------------------

\* the day the clock is kept on; the start date lies a full week before it,
\* so every later day falls into the last week of the schedules below and
\* getEmailsPerDay() is the same on each of them
LiveDay == 7

LiveSchedules == {(1 :> 2), (1 :> 1) @@ (2 :> 3)}

\* senders.json: the number of senders it lists
SenderLists == {0, 1}

LiveInit ==
    /\ now \in {LiveDay * DayMs, LiveDay * DayMs + DayMs \div 2}
    /\ envRecommended = FALSE
    /\ mailerPrompt = TRUE
    /\ warmupSchedule \in LiveSchedules
    /\ startDate = 0
    /\ probe \in {[fn |-> "getRandomSender", senders |-> n] : n \in SenderLists}
    /\ Constructed

\* whole days between the day the clock is kept on and time t
DaysPast(t) == DayOf(t) - LiveDay

\* the armed timers, due times counted from the day the clock is kept on
Rebased(ts, t) == {[tm EXCEPT !.due = @ - DaysPast(t) * DayMs] : tm \in ts}

\* the setInterval callback
liveTick ==
    /\ ~exited
    /\ Quiet
    /\ \E tm \in timers :
         /\ tm.kind = "tick"
         /\ Earliest(tm)
         /\ now' = tm.due - DaysPast(tm.due) * DayMs
         /\ LET rearmed == (timers \ {tm})
                             \cup {[tm EXCEPT !.due = tm.due + tm.delay]}
            IN  IF dailyEmailCountSent >= tm.quota
                THEN LET f == scheduleNextDay(
                                  clearEmailInterval(
                                      [Frame EXCEPT !.timers = rearmed]),
                                  tm.due, isRunning)
                     IN  /\ timers' = Rebased(f.timers, tm.due)
                         /\ emailIntervalId' = f.emailIntervalId
                         /\ nextDayTimeoutId' = f.nextDayTimeoutId
                         /\ lastOp' = Op("tickDone")
                         /\ UNCHANGED <<recipientManager, inflight>>
                ELSE /\ timers' = Rebased(rearmed, tm.due)
                     /\ UNCHANGED <<emailIntervalId, nextDayTimeoutId>>
                     /\ IF recipientManager = NullManager
                        THEN /\ lastOp' = Op("tickThrow")
                             /\ UNCHANGED <<recipientManager, inflight>>
                        ELSE LET next == getNextRecipient(recipientManager)
                             IN  /\ recipientManager' = next.rm
                                 /\ IF probe.senders > 0
                                    THEN /\ lastOp' = Op("tickSend")
                                         /\ inflight' = inflight (+) SetToBag(
                                              {[to |-> next.value,
                                                pass |-> pass.no]})
                                    ELSE \* getRandomSender() throws
                                         /\ lastOp' = Op("tickThrow")
                                         /\ UNCHANGED inflight
    /\ UNCHANGED <<config, exited, loadResult, isRunning, dailyEmailCountSent,
                   ticks, calls, pass, mailed>>

\* the setTimeout callback of scheduleNextDay
liveRollover ==
    /\ ~exited
    /\ Quiet
    /\ \E tm \in timers :
         /\ tm.kind = "rollover"
         /\ Earliest(tm)
         /\ now' = tm.due - DaysPast(tm.due) * DayMs
         /\ LET f == scheduleEmailsForToday(
                         [Frame EXCEPT !.timers = timers \ {tm}],
                         tm.due, isRunning, FALSE)
            IN  /\ timers' = Rebased(f.timers, tm.due)
                /\ emailIntervalId' = f.emailIntervalId
                /\ nextDayTimeoutId' = f.nextDayTimeoutId
                /\ dailyEmailCountSent' = f.dailyEmailCountSent
    /\ lastOp' = Op("rollover")
    /\ UNCHANGED <<config, exited, recipientManager, loadResult, isRunning,
                   inflight, ticks, calls, pass, mailed>>

\* the sendEmailFunction promise settles: this.dailyEmailCountSent++
liveSettles ==
    /\ ~exited
    /\ \E send \in BagToSet(inflight) :
         inflight' = inflight (-) SetToBag({send})
    /\ dailyEmailCountSent' = dailyEmailCountSent + 1
    /\ lastOp' = Op("sendSettles")
    /\ UNCHANGED <<now, config, exited, recipientManager, loadResult, isRunning,
                   emailIntervalId, nextDayTimeoutId, timers,
                   ticks, calls, pass, mailed>>

LiveNext ==
    \/ LoadRecipients
    \/ start
    \/ liveTick
    \/ liveRollover
    \/ liveSettles

\* an armed timer fires when it is due, and the mailer completes every call
LiveSpec ==
    /\ LiveInit
    /\ [][LiveNext]_vars
    /\ WF_vars(liveTick)
    /\ WF_vars(liveRollover)
    /\ WF_vars(liveSettles)

\* C12: once start() has entered the daily routine, with stop() never called
\* and every mailer call completing, every pass ends with the rollover timer
\* armed, and the armed rollover timer fires and begins the next pass.
C12_PassesRecur ==
    /\ (TickTimers # {}) ~> (RolloverTimers # {})
    /\ (RolloverTimers # {}) ~> (lastOp.op = "rollover")


\* C25: after every reset of dailyEmailCountSent (by start() or by a rollover
\* firing) the count equals the number of mailer calls that were started
\* after that reset and have settled; a call started before the reset and
\* settling after it is not counted toward the new pass.
C25_CountIsOfThisPass ==
    pass.no > 0 => dailyEmailCountSent = pass.completed


\* C24: a start() that passes its guards and does not end the process refuses
\* to schedule (arms no timer) exactly when the calendar date of the start
\* date is earlier than today's date, whatever the month of either.
C24_RefusesPastDatesOnly ==
    [][(lastOp'.op = "start" /\ lastOp'.ready /\ ~exited')
         => ((timers' = {}) <=> (DayOf(startDate) < DayOf(now)))]_vars


MaxQuotaDays == 22          \* days of clock followed

\* schedules with contiguous and with non-contiguous keys
QuotaSchedules ==
    {(1 :> 2),
     (1 :> 1) @@ (2 :> 3),
     (1 :> 5) @@ (2 :> 3),
     (1 :> 1) @@ (3 :> 4),
     (2 :> 2) @@ (3 :> 6),
     (1 :> 4) @@ (2 :> 0) @@ (3 :> 2)}

QuotaInit ==
    /\ now = 0
    /\ envRecommended = TRUE
    /\ mailerPrompt = TRUE
    /\ warmupSchedule \in QuotaSchedules
    /\ startDate = 0
    /\ probe = [fn |-> "getEmailsPerDay", last |-> "none", quota |-> 0]
    /\ Constructed

\* every variable but probe and now
besides == <<envRecommended, mailerPrompt, exited, warmupSchedule, startDate,
             recipientManager, loadResult, isRunning, dailyEmailCountSent,
             emailIntervalId, nextDayTimeoutId, timers, inflight,
             ticks, calls, lastOp, pass, mailed>>

\* a day passes
quotaElapse ==
    /\ now + DayMs <= MaxQuotaDays * DayMs
    /\ now' = now + DayMs
    /\ probe' = [probe EXCEPT !.last = "elapse"]
    /\ UNCHANGED besides

quotaCall ==
    /\ probe' = [probe EXCEPT !.last = "getEmailsPerDay",
                              !.quota = getEmailsPerDayAt(now)]
    /\ UNCHANGED <<now, besides>>

QuotaNext ==
    \/ quotaElapse
    \/ quotaCall

QuotaSpec == QuotaInit /\ [][QuotaNext]_vars

\* the week the clock is in, counted from the start date
C21_Week == (now - startDate) \div (7 * DayMs) + 1

\* C21: in every week beyond the largest key of the schedule,
\* getEmailsPerDay() returns the quota stored at the largest key, for
\* contiguous and non-contiguous keys alike.
C21_Plateau ==
    (probe.last = "getEmailsPerDay"
       /\ \A k \in DOMAIN warmupSchedule : k < C21_Week)
      => \E top \in DOMAIN warmupSchedule :
           /\ \A k \in DOMAIN warmupSchedule : k <= top
           /\ probe.quota = warmupSchedule[top]

\* a call in the week after the last key of a schedule with a gap in its keys
C21_Witness ==
    /\ probe.last = "getEmailsPerDay"
    /\ \A k \in DOMAIN warmupSchedule : k < C21_Week
    /\ \E k \in 1 .. 3 : k \notin DOMAIN warmupSchedule
    /\ probe.quota = 4


\* ---------------------------------------------------------------------
\* The scheduler in a week whose quota is not positive
\* ---------------------------------------------------------------------

\* week 1 holds no positive quota; createWarmupSchedule(0, 2, 2) builds the first
ZeroSchedules == {(1 :> 0) @@ (2 :> 2), (1 :> -1) @@ (2 :> 2), (1 :> 0)}

ZeroInit ==
    /\ now \in {d * DayMs + o : d \in InitDays, o \in {0, DayMs \div 2}}
    /\ envRecommended = FALSE
    /\ mailerPrompt \in BOOLEAN
    /\ warmupSchedule \in ZeroSchedules
    /\ startDate = 6 * DayMs
    /\ probe = NoProbe
    /\ Constructed

ZeroSpec == ZeroInit /\ [][Next]_vars

\* the quota the schedule holds for the week of the given day: the entry of
\* that week, or the entry of the largest key for a week without an entry
C23_QuotaOfDay(day) ==
    LET week == (day * DayMs - startDate) \div (7 * DayMs) + 1
    IN  IF week \in DOMAIN warmupSchedule
        THEN warmupSchedule[week]
        ELSE warmupSchedule[CHOOSE top \in DOMAIN warmupSchedule :
                              \A k \in DOMAIN warmupSchedule : k <= top]

\* C23: a daily pass begun in a week whose quota in the schedule is <= 0 arms
\* the rollover timer and no tick timer, and while that pass lasts the mailer
\* is not invoked.
C23_NonPositiveQuotaSkipsDay ==
    [][/\ (pass'.no # pass.no /\ C23_QuotaOfDay(DayOf(now')) <= 0)
            => /\ \E tm \in timers' : tm.kind = "rollover"
                                      /\ tm.id = nextDayTimeoutId'
               /\ \A tm \in timers' : tm.kind # "tick"
       /\ (pass.no > 0 /\ pass'.no = pass.no /\ C23_QuotaOfDay(pass.day) <= 0)
            => ~MailerInvoked]_vars

====
